---- MODULE Spec2Model ----
(***************************************************************************)
(* Model of src/app.py: the Instagram stamp-card webhook.                  *)
(*                                                                         *)
(* The two Supabase tables, the per-request locals of webhook() and the    *)
(* calls it makes (store reads and upserts, Notifier sends) are the state. *)
(* Every external call is one step; its outcome (the call returns, or it   *)
(* raises and the surrounding try/except swallows it) is chosen by the     *)
(* environment.  Timestamps (last_visit_at, last_day, updated_at) never    *)
(* influence control flow and are left out of the rows.                    *)
(***************************************************************************)
EXTENDS Integers, Sequences, FiniteSets, TLC

\* ------------------------------------------------------------------ bounds
MaxEvents == 2           \* sub-events carried by one request
MaxEntries == 2          \* entries carried by one request
MaxExcess == 6           \* how far below 0 and above 10 a visit count given to
                         \* build_stamp_card_url lies
MaxVisits == 8          \* STAMP is not drawn once number_of_visits + 2 exceeds this
MaxStreak == 6          \* STAMP is not drawn once streak_days + 1 exceeds this
InitMaxVisits == 3      \* largest number_of_visits present at start
InitMaxStreak == 4      \* largest streak_days present at start

\* ------------------------------------------------------------ values
Procs == {1, 2}                 \* request-handling threads of the server
Customers == {"u1"}             \* IGSIDs seen in sender.id
NoId == ""                      \* sender missing, or sender.id missing/empty
NULL == -1                      \* a NULL column / Python None in an int slot

\* A text is a tuple of one-character strings.
Whitespace == {" ", "\n"}
T_STAMP == <<"S", "T", "A", "M", "P">>
T_SIGNUP == <<"S", "I", "G", "N", "U", "P">>
T_CARD == <<"C", "A", "R", "D">>
T_REPORT == <<"R", "E", "P", "O", "R", "T">>

\* message.text values drawn for a sub-event (<<>>: text missing or empty)
Texts ==
    { <<>>, <<" ">>,
      T_STAMP, <<"s", "t", "a", "m", "p">>, <<" ", "S", "t", "a", "m", "p", "\n">>,
      <<"S", "T", "A", "M", "P", "S">>, <<"S", "T", " ", "A", "M", "P">>,
      T_SIGNUP, <<"s", "i", "g", "n", "u", "p", " ">>,
      T_CARD, <<"\n", "c", "a", "r", "d">>,
      T_REPORT, <<"r", "e", "p", "o", "r", "t">>,
      <<"h", "i">> }

\* str.upper() on the characters that occur in Texts
upper_char(c) ==
    CASE c = "a" -> "A" [] c = "c" -> "C" [] c = "d" -> "D" [] c = "e" -> "E"
      [] c = "g" -> "G" [] c = "h" -> "H" [] c = "i" -> "I" [] c = "m" -> "M"
      [] c = "n" -> "N" [] c = "o" -> "O" [] c = "p" -> "P" [] c = "r" -> "R"
      [] c = "s" -> "S" [] c = "t" -> "T" [] c = "u" -> "U"
      [] OTHER -> c

upper(s) == [i \in 1..Len(s) |-> upper_char(s[i])]

RECURSIVE lstrip(_)
lstrip(s) == IF s # <<>> /\ Head(s) \in Whitespace THEN lstrip(Tail(s)) ELSE s

RECURSIVE rstrip(_)
rstrip(s) ==
    IF s # <<>> /\ s[Len(s)] \in Whitespace
    THEN rstrip(SubSeq(s, 1, Len(s) - 1))
    ELSE s

\* mutant: only leading whitespace is removed
strip_LeftOnly(s) == lstrip(s)

\* str.strip()
strip(s) == rstrip(lstrip(s))

\* text_upper = (msg.get("text") or "").strip().upper()
text_upper(t) == upper(strip(t))

\* the chain of `if text_upper == ...: ... continue`, falling through to HELP
Command(t) ==
    CASE text_upper(t) = T_SIGNUP -> "SIGNUP"
      [] text_upper(t) = T_STAMP -> "STAMP"
      [] text_upper(t) = T_CARD -> "CARD"
      [] text_upper(t) = T_REPORT -> "REPORT"
      [] OTHER -> "HELP"

\* ------------------------------------------------------- signature check
\* An x-hub-signature-256 header is a tuple of tokens: the literal "sha256="
\* (or another scheme), blanks, and hex digests.  "mac_ok" is the hex digest
\* of HMAC-SHA256(WEBHOOK_APP_SECRET, request.data); "mac_bad" is any other.
Headers ==
    { <<>>,
      <<"sha256=", "mac_ok">>,
      <<"sha256=", "mac_bad">>,
      <<"mac_ok">>,
      <<"sha1=", "mac_ok">>,
      <<"sha256=">>,
      <<"sha256=", " ", "mac_ok", " ">>,
      <<" ", "sha256=", "mac_ok">> }

expected == <<"mac_ok">>

\* mutant: any non-empty header passes the prefix test
startswith_sha256_Any(h) == h # <<>>

startswith_sha256(h) == h # <<>> /\ Head(h) = "sha256="

\* signature_256.split("=", 1)[1].strip()
sig_hex(h) == strip(Tail(h))

verify_meta_signature(sec, h) ==
    IF ~sec THEN TRUE
    ELSE IF ~startswith_sha256(h) THEN FALSE
    ELSE sig_hex(h) = expected

\* ------------------------------------------------------------ card URL
\* mutant: the upper clamp is missing
clamp_visits_NoUpper(v) == IF v < 0 THEN 0 ELSE v

clamp_visits(v) == IF v < 0 THEN 0 ELSE IF v > 10 THEN 10 ELSE v

\* base + str(visits) + ".png"
build_stamp_card_url(v) == <<"Demo_Shop_", clamp_visits(v), ".png">>

\* ------------------------------------------------------------ streak rule
\* prev_streak = row.get("streak_days", 0) if row else 0
PrevStreak(row) == IF row # <<>> THEN row[1].streak_days ELSE 0

\* mutant: the streak advances by five at a time
NewStreak_Skip(prev) == (IF prev = NULL \/ prev = 0 THEN 0 ELSE prev) + 5

\* new_streak = (prev_streak or 0) + 1
NewStreak(prev) == (IF prev = NULL \/ prev = 0 THEN 0 ELSE prev) + 1

\* mutant: the threshold compared with > instead of >=
HitNow_Strict(n, new, prev) == new > n /\ prev < n

\* hit_N_now = (new_streak >= N and prev_streak < N); `and` short-circuits, so
\* prev_streak is compared only when new_streak >= N, and a None prev_streak
\* gives new_streak = 1 < N.
HitNow(n, new, prev) == new >= n /\ prev < n

\* mutant: the double stamp is never granted
AddStamps_NoBonus(hit5) == 1

\* add_stamps = 1, set to 2 in the `if hit_5_now:` branch
AddStamps(hit5) == IF hit5 THEN 2 ELSE 1

\* current_visits = customer.get("number_of_visits", 0) if customer else 0
CurrentVisits(cust) == IF cust # <<>> THEN cust[1].number_of_visits ELSE 0

\* ------------------------------------------------------------------ state
VARIABLES
    secret,            \* bool(WEBHOOK_APP_SECRET)
    customers,         \* table `customers`: id -> <<>> or <<[number_of_visits]>>
    customer_streaks,  \* table `customer_streaks`: id -> <<>> or <<[streak_days]>>
    pc,                \* position of each thread in webhook()
    sig256,            \* the request's x-hub-signature-256 header, until the loop
                       \* starts
    todo,              \* events of the flattened list not yet iterated
    status,            \* HTTP status returned (0: none yet)
    ig_user_id,        \* sender.id of the sub-event being handled
    text,              \* message.text of the sub-event just dispatched
    cmd,               \* the flow the sub-event was dispatched to
    customer,          \* result of fetch_single_customer: <<>> is None
    current_visits,
    prev_streak,
    new_streak,
    streak_days,       \* first component returned by get_and_update_streak
    hit_2_now,
    hit_5_now,
    new_visits,
    trace,             \* store calls and sends of the sub-event, in call order
    pre,               \* the customer's two rows when the sub-event was dispatched
    touched,           \* a store call or a send was made for this request
    failed,            \* a store call raised or a send failed in this request
    data,              \* the parsed body of the request, until the loop starts
    events,            \* the flattened list of messaging events, from the one the
                       \* loop takes next
    looped,            \* the loop has taken an event of this request
    counting,          \* the run keeps the two history records below
    streak_texts,      \* streak-2 and streak-5 texts sent to each customer so far
    streak_calls_ok,   \* no customer_streaks select or upsert has raised so far
    ok_calls           \* get_and_update_streak calls made so far, counted while the
                       \* customer started without StreakRecord and no store call
                       \* has raised; -1 otherwise

vars ==
    << secret, customers, customer_streaks, pc, sig256, todo, status, ig_user_id,
       text, cmd, customer, current_visits, prev_streak, new_streak, streak_days,
       hit_2_now, hit_5_now, new_visits, trace, pre, touched, failed, data,
       events, looped, counting, streak_texts, streak_calls_ok, ok_calls >>

history == << counting, streak_texts, streak_calls_ok >>

request == << data, events, looped >>

locals ==
    << customer, current_visits, prev_streak, new_streak, streak_days,
       hit_2_now, hit_5_now, new_visits >>

\* ------------------------------------------------------------ request body
\* A messaging event is named by its place in the body: <<i, j>> is item j of
\* the messaging list of entry i.  A key may be missing (or null).
Messaging(i, k) == [j \in 1..k |-> <<i, j>>]

Entries(i) ==
    {[has_messaging |-> FALSE, messaging |-> <<>>]}
        \cup {[has_messaging |-> TRUE, messaging |-> Messaging(i, k)] : k \in 0..MaxEvents}

\* `entry.get("messaging") or []`, line 320
MessagingList(entry) == IF entry.has_messaging THEN entry.messaging ELSE <<>>

\* mutant: the list of the last entry replaces the list built so far
Flatten_LastOnly(entries) ==
    IF entries = <<>> THEN <<>> ELSE MessagingList(entries[Len(entries)])

\* lines 318-320: events = []; for entry in entries: events.extend(...)
RECURSIVE Flatten(_)
Flatten(entries) ==
    IF entries = <<>> THEN <<>>
    ELSE MessagingList(Head(entries)) \o Flatten(Tail(entries))

EntryLists ==
    {es \in UNION {[1..n -> UNION {Entries(i) : i \in 1..MaxEntries}] : n \in 0..MaxEntries} :
        /\ \A i \in 1..Len(es) : es[i] \in Entries(i)
        /\ Len(Flatten(es)) <= MaxEvents}

\* `request.get_json(silent=True) or {}`: a body that is not JSON is {}
NoBody == [has_entry |-> FALSE, entry |-> <<>>]

Bodies == {NoBody} \cup {[has_entry |-> TRUE, entry |-> es] : es \in EntryLists}

\* `data.get("entry") or []`, line 313
EntryList(d) == IF d.has_entry THEN d.entry ELSE <<>>

CustomerRows == {<<>>} \cup {<<[number_of_visits |-> v]>> : v \in 0..InitMaxVisits}
StreakRows == {<<>>} \cup {<<[streak_days |-> d]>> : d \in {NULL} \cup 0..InitMaxStreak}

Start(count) ==
    /\ secret \in BOOLEAN
    /\ customers \in [Customers -> CustomerRows]
    /\ customer_streaks \in [Customers -> StreakRows]
    /\ pc = [p \in Procs |-> "idle"]
    /\ sig256 = [p \in Procs |-> <<>>]
    /\ todo = [p \in Procs |-> 0]
    /\ status = [p \in Procs |-> 0]
    /\ ig_user_id = [p \in Procs |-> NoId]
    /\ text = [p \in Procs |-> <<>>]
    /\ cmd = [p \in Procs |-> ""]
    /\ customer = [p \in Procs |-> <<>>]
    /\ current_visits = [p \in Procs |-> 0]
    /\ prev_streak = [p \in Procs |-> 0]
    /\ new_streak = [p \in Procs |-> 0]
    /\ streak_days = [p \in Procs |-> 0]
    /\ hit_2_now = [p \in Procs |-> FALSE]
    /\ hit_5_now = [p \in Procs |-> FALSE]
    /\ new_visits = [p \in Procs |-> 0]
    /\ trace = [p \in Procs |-> <<>>]
    /\ pre = [p \in Procs |-> <<>>]
    /\ touched = [p \in Procs |-> FALSE]
    /\ failed = [p \in Procs |-> FALSE]
    /\ data = [p \in Procs |-> NoBody]
    /\ events = [p \in Procs |-> <<>>]
    /\ looped = [p \in Procs |-> FALSE]
    /\ counting = count
    /\ streak_texts = [c \in Customers |-> [streak2 |-> 0, streak5 |-> 0]]
    /\ streak_calls_ok = TRUE
    /\ ok_calls = IF \A c \in Customers : customer_streaks[c] = <<>> THEN 0 ELSE -1

Init == Start(FALSE)

\* the same start, for runs that record the streak texts sent; no secret is
\* configured
CountInit == Start(TRUE) /\ ~secret

\* ------------------------------------------------------------ bookkeeping
Call(name, ok, arg) == [call |-> name, ok |-> ok, arg |-> arg]

\* texts of one kind are counted as none, one, or more than one
Counted(n) == IF n < 2 THEN n + 1 ELSE n

\* one external call by thread p: logged, and the request marked; the raw text
\* is not read again once the flow is entered
Logged(p, name, ok, arg) ==
    /\ trace' = [trace EXCEPT ![p] = Append(@, Call(name, ok, arg))]
    /\ text' = [text EXCEPT ![p] = <<>>]
    /\ touched' = [touched EXCEPT ![p] = TRUE]
    /\ failed' = [failed EXCEPT ![p] = @ \/ ~ok]
    /\ counting' = counting
    /\ streak_texts' =
          IF counting /\ name = "sendText" /\ arg = <<"streak2">>
          THEN [streak_texts EXCEPT ![ig_user_id[p]].streak2 = Counted(@)]
          ELSE IF counting /\ name = "sendText" /\ arg = <<"streak5">>
          THEN [streak_texts EXCEPT ![ig_user_id[p]].streak5 = Counted(@)]
          ELSE streak_texts
    /\ streak_calls_ok' =
          (streak_calls_ok /\ ((counting /\ name \in {"getStreak", "upsertStreak"}) => ok))

StoreCall(ok) == ok_calls' = IF ok THEN ok_calls ELSE -1

AllIdle == \A q \in Procs : pc[q] = "idle"

\* ------------------------------------------------------------ POST /webhook
\* Lines 304-323: signature check, JSON parse, flattening of entry[].messaging.
\* The flattened list is empty when there is no entry list, an empty one, or
\* only entries without messaging items.  The header is read into sig256 only
\* under `if WEBHOOK_APP_SECRET:`.
\* mutant: `data["entry"]` and `entry["messaging"]`: a missing key fails the request
Post_KeyError(p) ==
    /\ pc[p] = "idle"
    /\ \A q \in Procs : q < p => pc[q] # "idle"
    /\ \E h \in Headers, d \in Bodies :
        /\ sig256' = [sig256 EXCEPT ![p] = IF secret THEN h ELSE <<>>]
        /\ IF ~verify_meta_signature(secret, h)
           THEN /\ status' = [status EXCEPT ![p] = 403]
                /\ pc' = [pc EXCEPT ![p] = "responded"]
                /\ UNCHANGED << todo, data, events >>
           ELSE /\ data' = [data EXCEPT ![p] = d]
                /\ IF ~d.has_entry \/ \E i \in 1..Len(d.entry) : ~d.entry[i].has_messaging
                   THEN /\ status' = [status EXCEPT ![p] = 500]
                        /\ pc' = [pc EXCEPT ![p] = "responded"]
                        /\ UNCHANGED << todo, events >>
                   ELSE IF Flatten(EntryList(d)) = <<>>
                   THEN /\ status' = [status EXCEPT ![p] = 200]
                        /\ pc' = [pc EXCEPT ![p] = "responded"]
                        /\ UNCHANGED << todo, events >>
                   ELSE /\ status' = status
                        /\ pc' = [pc EXCEPT ![p] = "loop"]
                        /\ events' = [events EXCEPT ![p] = Flatten(EntryList(d))]
                        /\ todo' = [todo EXCEPT ![p] = Len(Flatten(EntryList(d)))]
    /\ UNCHANGED << secret, customers, customer_streaks, ig_user_id, text, cmd,
                    locals, trace, pre, touched, failed, looped, history, ok_calls >>

Post(p) ==
    /\ pc[p] = "idle"
    /\ \A q \in Procs : q < p => pc[q] # "idle"
    /\ \E h \in Headers, d \in Bodies :
        /\ sig256' = [sig256 EXCEPT ![p] = IF secret THEN h ELSE <<>>]
        /\ IF ~verify_meta_signature(secret, h)
           THEN /\ status' = [status EXCEPT ![p] = 403]
                /\ pc' = [pc EXCEPT ![p] = "responded"]
                /\ UNCHANGED << todo, data, events >>
           ELSE /\ data' = [data EXCEPT ![p] = d]
                /\ IF EntryList(d) = <<>> \/ Flatten(EntryList(d)) = <<>>
                   THEN /\ status' = [status EXCEPT ![p] = 200]
                        /\ pc' = [pc EXCEPT ![p] = "responded"]
                        /\ UNCHANGED << todo, events >>
                   ELSE /\ status' = status
                        /\ pc' = [pc EXCEPT ![p] = "loop"]
                        /\ events' = [events EXCEPT ![p] = Flatten(EntryList(d))]
                        /\ todo' = [todo EXCEPT ![p] = Len(Flatten(EntryList(d)))]
    /\ UNCHANGED << secret, customers, customer_streaks, ig_user_id, text, cmd,
                    locals, trace, pre, touched, failed, looped, history, ok_calls >>

FlowStart(c) ==
    CASE c = "SIGNUP" -> "signup_fetch"
      [] c = "STAMP" -> "stamp_fetch"
      [] c = "CARD" -> "card_fetch"
      [] c = "REPORT" -> "report_send"
      [] OTHER -> "help_send"

\* STAMP is drawn only while the counters it would write stay within the bounds
WithinBounds(id) ==
    /\ customers[id] # <<>> => customers[id][1].number_of_visits + 2 <= MaxVisits
    /\ customer_streaks[id] # <<>> => customer_streaks[id][1].streak_days + 1 <= MaxStreak

\* Lines 325-337 (and 367, 415, 427): the next event of the list.  An event
\* without sender id or without message is skipped.  The signature header and
\* the parsed body are not read again once the loop runs (lines 307 and 313
\* are their last uses).
Dispatch(p) ==
    /\ pc[p] = "loop"
    /\ todo[p] > 0
    /\ events' = [events EXCEPT ![p] = Tail(@)]
    /\ looped' = [looped EXCEPT ![p] = TRUE]
    /\ sig256' = [sig256 EXCEPT ![p] = <<>>]
    /\ data' = [data EXCEPT ![p] = NoBody]
    /\ \E id \in Customers \cup {NoId}, has_msg \in BOOLEAN, t \in Texts :
        IF id = NoId \/ ~has_msg
        THEN /\ t = <<>>
             /\ todo' = [todo EXCEPT ![p] = @ - 1]
             /\ UNCHANGED << pc, ig_user_id, text, cmd, pre >>
        ELSE /\ Command(t) = "STAMP" => WithinBounds(id)
             /\ ig_user_id' = [ig_user_id EXCEPT ![p] = id]
             /\ text' = [text EXCEPT ![p] = t]
             /\ cmd' = [cmd EXCEPT ![p] = Command(t)]
             /\ pc' = [pc EXCEPT ![p] = FlowStart(Command(t))]
             /\ pre' = [pre EXCEPT ![p] = <<customers[id], customer_streaks[id]>>]
             /\ todo' = todo
    /\ UNCHANGED << secret, customers, customer_streaks, status, locals,
                    trace, touched, failed, history, ok_calls >>

\* Line 451: the list is exhausted
Finish(p) ==
    /\ pc[p] = "loop"
    /\ todo[p] = 0
    /\ status' = [status EXCEPT ![p] = 200]
    /\ pc' = [pc EXCEPT ![p] = "responded"]
    /\ UNCHANGED << secret, customers, customer_streaks, sig256, todo, request, ig_user_id,
                    text, cmd, locals, trace, pre, touched, failed, history, ok_calls >>

\* fetch_single_customer, lines 156-174: the row, or None when there is no row
\* or the select raised
fetch_single_customer(id, ok) == IF ok THEN customers[id] ELSE <<>>

\* the `continue` that ends a flow: the locals of the iteration die
Continue(p) ==
    /\ pc[p] = "done"
    /\ pc' = [pc EXCEPT ![p] = "loop"]
    /\ todo' = [todo EXCEPT ![p] = @ - 1]
    /\ ig_user_id' = [ig_user_id EXCEPT ![p] = NoId]
    /\ text' = [text EXCEPT ![p] = <<>>]
    /\ cmd' = [cmd EXCEPT ![p] = ""]
    /\ customer' = [customer EXCEPT ![p] = <<>>]
    /\ current_visits' = [current_visits EXCEPT ![p] = 0]
    /\ prev_streak' = [prev_streak EXCEPT ![p] = 0]
    /\ new_streak' = [new_streak EXCEPT ![p] = 0]
    /\ streak_days' = [streak_days EXCEPT ![p] = 0]
    /\ hit_2_now' = [hit_2_now EXCEPT ![p] = FALSE]
    /\ hit_5_now' = [hit_5_now EXCEPT ![p] = FALSE]
    /\ new_visits' = [new_visits EXCEPT ![p] = 0]
    /\ trace' = [trace EXCEPT ![p] = <<>>]
    /\ pre' = [pre EXCEPT ![p] = <<>>]
    /\ UNCHANGED << secret, customers, customer_streaks, sig256, status, touched,
                    failed, request, history, ok_calls >>

\* the response leaves; the thread is free again
Respond(p) ==
    /\ pc[p] = "responded"
    /\ pc' = [pc EXCEPT ![p] = "idle"]
    /\ status' = [status EXCEPT ![p] = 0]
    /\ sig256' = [sig256 EXCEPT ![p] = <<>>]
    /\ touched' = [touched EXCEPT ![p] = FALSE]
    /\ failed' = [failed EXCEPT ![p] = FALSE]
    /\ data' = [data EXCEPT ![p] = NoBody]
    /\ events' = [events EXCEPT ![p] = <<>>]
    /\ looped' = [looped EXCEPT ![p] = FALSE]
    /\ UNCHANGED << secret, customers, customer_streaks, todo, ig_user_id, text,
                    cmd, locals, trace, pre, history, ok_calls >>

\* ------------------------------------------------------------ store, sends
\* sb.table("customers").upsert({customer_id, number_of_visits, last_visit_at})
UpsertCustomer(tbl, id, v) == [tbl EXCEPT ![id] = <<[number_of_visits |-> v]>>]

\* mutant: an insert that leaves an existing row alone
UpsertStreak_InsertOnly(tbl, id, d) ==
    IF tbl[id] = <<>> THEN [tbl EXCEPT ![id] = <<[streak_days |-> d]>>] ELSE tbl

\* sb.table("customer_streaks").upsert({customer_id, streak_days, last_day, ...})
UpsertStreak(tbl, id, d) == [tbl EXCEPT ![id] = <<[streak_days |-> d]>>]

\* send_ig_text -> send_instagram_message (lines 73-119): one POST to the Graph
\* API; ok is FALSE when the sender is not configured, the POST raises or the
\* status is >= 400.  Nothing is raised to the caller.
SendText(p, ok, which, next) ==
    /\ Logged(p, "sendText", ok, <<which>>)
    /\ pc' = [pc EXCEPT ![p] = next]
    /\ UNCHANGED << secret, customers, customer_streaks, sig256, todo, request, status,
                    ig_user_id, cmd, locals, pre, ok_calls >>

\* send_ig_image -> send_instagram_message (lines 122-139), with the caption
\* that reports n stamps
SendImage(p, ok, n, next) ==
    /\ Logged(p, "sendImage", ok, <<build_stamp_card_url(n), n>>)
    /\ pc' = [pc EXCEPT ![p] = next]
    /\ UNCHANGED << secret, customers, customer_streaks, sig256, todo, request, status,
                    ig_user_id, cmd, locals, pre, ok_calls >>

\* ------------------------------------------------------------ SIGNUP flow
\* mutant: SIGNUP always writes the zero row
SignupCreates_Always(cust) == TRUE

\* line 341: `if not customer:`
SignupCreates(cust) == cust = <<>>

\* mutant: a failed select ends the flow before the welcome text
SignupFetch_GivesUp(p) ==
    /\ pc[p] = "signup_fetch"
    /\ \E ok \in BOOLEAN :
        /\ customer' = [customer EXCEPT ![p] = fetch_single_customer(ig_user_id[p], ok)]
        /\ Logged(p, "getCustomer", ok, <<>>)
        /\ StoreCall(ok)
        /\ pc' = [pc EXCEPT ![p] =
                    IF ~ok THEN "done"
                    ELSE IF customer'[p] = <<>> THEN "signup_upsert" ELSE "signup_send"]
    /\ UNCHANGED << secret, customers, customer_streaks, sig256, todo, request, status,
                    ig_user_id, cmd, current_visits, prev_streak, new_streak,
                    streak_days, hit_2_now, hit_5_now, new_visits, pre >>

\* line 340
SignupFetch(p) ==
    /\ pc[p] = "signup_fetch"
    /\ \E ok \in BOOLEAN :
        /\ customer' = [customer EXCEPT ![p] = fetch_single_customer(ig_user_id[p], ok)]
        /\ Logged(p, "getCustomer", ok, <<>>)
        /\ StoreCall(ok)
    /\ pc' = [pc EXCEPT ![p] =
                IF SignupCreates(customer'[p]) THEN "signup_upsert" ELSE "signup_send"]
    /\ UNCHANGED << secret, customers, customer_streaks, sig256, todo, request, status,
                    ig_user_id, cmd, current_visits, prev_streak, new_streak,
                    streak_days, hit_2_now, hit_5_now, new_visits, pre >>

\* mutant: the upsert without its try/except; the exception ends the request
SignupUpsert_Unguarded(p) ==
    /\ pc[p] = "signup_upsert"
    /\ \E ok \in BOOLEAN :
        /\ customers' = IF ok THEN UpsertCustomer(customers, ig_user_id[p], 0)
                        ELSE customers
        /\ Logged(p, "upsertCustomer", ok, <<0>>)
        /\ StoreCall(ok)
        /\ pc' = [pc EXCEPT ![p] = IF ok THEN "signup_send" ELSE "responded"]
        /\ status' = [status EXCEPT ![p] = IF ok THEN @ ELSE 500]
    /\ UNCHANGED << secret, customer_streaks, sig256, todo, request, ig_user_id, cmd, locals, pre >>

\* lines 342-351
SignupUpsert(p) ==
    /\ pc[p] = "signup_upsert"
    /\ \E ok \in BOOLEAN :
        /\ customers' = IF ok THEN UpsertCustomer(customers, ig_user_id[p], 0)
                        ELSE customers
        /\ Logged(p, "upsertCustomer", ok, <<0>>)
        /\ StoreCall(ok)
    /\ pc' = [pc EXCEPT ![p] = "signup_send"]
    /\ UNCHANGED << secret, customer_streaks, sig256, todo, request, status, ig_user_id,
                    cmd, locals, pre >>

\* lines 354-364
SignupSend(p) ==
    /\ pc[p] = "signup_send"
    /\ \E ok \in BOOLEAN : SendText(p, ok, "welcome", "done")

\* ------------------------------------------------------------ STAMP flow
\* lines 368-369
StampFetch(p) ==
    /\ pc[p] = "stamp_fetch"
    /\ \E ok \in BOOLEAN :
        /\ customer' = [customer EXCEPT ![p] = fetch_single_customer(ig_user_id[p], ok)]
        /\ Logged(p, "getCustomer", ok, <<>>)
        /\ StoreCall(ok)
    /\ current_visits' = [current_visits EXCEPT ![p] = CurrentVisits(customer'[p])]
    /\ pc' = [pc EXCEPT ![p] = "streak_select"]
    /\ UNCHANGED << secret, customers, customer_streaks, sig256, todo, request, status,
                    ig_user_id, cmd, prev_streak, new_streak, streak_days,
                    hit_2_now, hit_5_now, new_visits, pre >>

\* get_and_update_streak, lines 212-224: the row, or None when there is no row
\* or the select raised
select_streak(id, ok) == IF ok THEN customer_streaks[id] ELSE <<>>

\* mutant: a failed select makes the function answer streak 0
StreakSelect_ZeroOnError(p) ==
    /\ pc[p] = "streak_select"
    /\ \E ok \in BOOLEAN :
        LET row == select_streak(ig_user_id[p], ok)
            prev == PrevStreak(row)
            new == IF ok THEN NewStreak(prev) ELSE 0
        IN  /\ prev_streak' = [prev_streak EXCEPT ![p] = prev]
            /\ new_streak' = [new_streak EXCEPT ![p] = new]
            /\ hit_2_now' = [hit_2_now EXCEPT ![p] = HitNow(2, new, prev)]
            /\ hit_5_now' = [hit_5_now EXCEPT ![p] = HitNow(5, new, prev)]
            /\ Logged(p, "getStreak", ok, <<>>)
            /\ ok_calls' = IF ok /\ ok_calls >= 0 THEN ok_calls + 1 ELSE -1
    /\ pc' = [pc EXCEPT ![p] = "streak_upsert"]
    /\ UNCHANGED << secret, customers, customer_streaks, sig256, todo, request, status,
                    ig_user_id, cmd, customer, current_visits, streak_days,
                    new_visits, pre >>

\* get_and_update_streak, lines 212-230: the select and the streak rule
StreakSelect(p) ==
    /\ pc[p] = "streak_select"
    /\ \E ok \in BOOLEAN :
        LET row == select_streak(ig_user_id[p], ok)
            prev == PrevStreak(row)
            new == NewStreak(prev)
        IN  /\ prev_streak' = [prev_streak EXCEPT ![p] = prev]
            /\ new_streak' = [new_streak EXCEPT ![p] = new]
            /\ hit_2_now' = [hit_2_now EXCEPT ![p] = HitNow(2, new, prev)]
            /\ hit_5_now' = [hit_5_now EXCEPT ![p] = HitNow(5, new, prev)]
            /\ Logged(p, "getStreak", ok, <<>>)
            /\ ok_calls' = IF ok /\ ok_calls >= 0 THEN ok_calls + 1 ELSE -1
    /\ pc' = [pc EXCEPT ![p] = "streak_upsert"]
    /\ UNCHANGED << secret, customers, customer_streaks, sig256, todo, request, status,
                    ig_user_id, cmd, customer, current_visits, streak_days,
                    new_visits, pre >>

\* mutant: the streak-2 branch is missing
AfterStreak_NoSend2(h2, h5) == IF h5 THEN "stamp_send5" ELSE "stamp_upsert"

\* the sends and the upsert that follow the return of get_and_update_streak,
\* lines 375-393
AfterStreak(h2, h5) ==
    IF h2 THEN "stamp_send2" ELSE IF h5 THEN "stamp_send5" ELSE "stamp_upsert"

\* mutant: the upsert is acknowledged but nothing is written
StreakUpsert_NoWrite(p) ==
    /\ pc[p] = "streak_upsert"
    /\ \E ok \in BOOLEAN :
        /\ customer_streaks' = customer_streaks
        /\ Logged(p, "upsertStreak", ok, <<new_streak[p]>>)
        /\ StoreCall(ok)
    /\ streak_days' = [streak_days EXCEPT ![p] = new_streak[p]]
    /\ pc' = [pc EXCEPT ![p] = AfterStreak(hit_2_now[p], hit_5_now[p])]
    /\ UNCHANGED << secret, customers, sig256, todo, request, status, ig_user_id, cmd,
                    customer, current_visits, prev_streak, new_streak, hit_2_now,
                    hit_5_now, new_visits, pre >>

\* get_and_update_streak, lines 232-245: the upsert, and the return of the triple
StreakUpsert(p) ==
    /\ pc[p] = "streak_upsert"
    /\ \E ok \in BOOLEAN :
        /\ customer_streaks' =
              IF ok THEN UpsertStreak(customer_streaks, ig_user_id[p], new_streak[p])
              ELSE customer_streaks
        /\ Logged(p, "upsertStreak", ok, <<new_streak[p]>>)
        /\ StoreCall(ok)
    /\ streak_days' = [streak_days EXCEPT ![p] = new_streak[p]]
    /\ pc' = [pc EXCEPT ![p] = AfterStreak(hit_2_now[p], hit_5_now[p])]
    /\ UNCHANGED << secret, customers, sig256, todo, request, status, ig_user_id, cmd,
                    customer, current_visits, prev_streak, new_streak, hit_2_now,
                    hit_5_now, new_visits, pre >>

\* lines 375-380
StampSend2(p) ==
    /\ pc[p] = "stamp_send2"
    /\ \E ok \in BOOLEAN :
        SendText(p, ok, "streak2", IF hit_5_now[p] THEN "stamp_send5" ELSE "stamp_upsert")

\* lines 382-391
StampSend5(p) ==
    /\ pc[p] = "stamp_send5"
    /\ \E ok \in BOOLEAN : SendText(p, ok, "streak5", "stamp_upsert")

\* mutant: the store adds the stamps to the row it holds, in one statement
StampUpsert_Atomic(p) ==
    /\ pc[p] = "stamp_upsert"
    /\ LET nv == current_visits[p] + AddStamps(hit_5_now[p])
           held == IF customers[ig_user_id[p]] = <<>> THEN 0
                   ELSE customers[ig_user_id[p]][1].number_of_visits
       IN  /\ new_visits' = [new_visits EXCEPT ![p] = nv]
           /\ \E ok \in BOOLEAN :
               /\ customers' =
                     IF ok THEN UpsertCustomer(customers, ig_user_id[p],
                                               held + AddStamps(hit_5_now[p]))
                     ELSE customers
               /\ Logged(p, "upsertCustomer", ok, <<nv>>)
               /\ StoreCall(ok)
    /\ pc' = [pc EXCEPT ![p] = "stamp_image"]
    /\ UNCHANGED << secret, customer_streaks, sig256, todo, request, status, ig_user_id,
                    cmd, customer, current_visits, prev_streak, new_streak,
                    streak_days, hit_2_now, hit_5_now, pre >>

\* lines 393-404
StampUpsert(p) ==
    /\ pc[p] = "stamp_upsert"
    /\ LET nv == current_visits[p] + AddStamps(hit_5_now[p])
       IN  /\ new_visits' = [new_visits EXCEPT ![p] = nv]
           /\ \E ok \in BOOLEAN :
               /\ customers' = IF ok THEN UpsertCustomer(customers, ig_user_id[p], nv)
                               ELSE customers
               /\ Logged(p, "upsertCustomer", ok, <<nv>>)
               /\ StoreCall(ok)
    /\ pc' = [pc EXCEPT ![p] = "stamp_image"]
    /\ UNCHANGED << secret, customer_streaks, sig256, todo, request, status, ig_user_id,
                    cmd, customer, current_visits, prev_streak, new_streak,
                    streak_days, hit_2_now, hit_5_now, pre >>

\* mutant: the image reports the visits read, not the visits written
StampImage_Stale(p) ==
    /\ pc[p] = "stamp_image"
    /\ \E ok \in BOOLEAN : SendImage(p, ok, current_visits[p], "done")

\* lines 406-412
StampImage(p) ==
    /\ pc[p] = "stamp_image"
    /\ \E ok \in BOOLEAN : SendImage(p, ok, new_visits[p], "done")

\* ------------------------------------------------------------ CARD flow
\* mutant: CARD refreshes the row it read, creating it when absent
CardFetch_Touch(p) ==
    /\ pc[p] = "card_fetch"
    /\ \E ok \in BOOLEAN :
        /\ customer' = [customer EXCEPT ![p] = fetch_single_customer(ig_user_id[p], ok)]
        /\ Logged(p, "getCustomer", ok, <<>>)
        /\ StoreCall(ok)
    /\ current_visits' = [current_visits EXCEPT ![p] = CurrentVisits(customer'[p])]
    /\ customers' = UpsertCustomer(customers, ig_user_id[p], CurrentVisits(customer'[p]))
    /\ pc' = [pc EXCEPT ![p] = "card_image"]
    /\ UNCHANGED << secret, customer_streaks, sig256, todo, request, status, ig_user_id, cmd,
                    prev_streak, new_streak, streak_days, hit_2_now, hit_5_now,
                    new_visits, pre >>

\* lines 416-417
CardFetch(p) ==
    /\ pc[p] = "card_fetch"
    /\ \E ok \in BOOLEAN :
        /\ customer' = [customer EXCEPT ![p] = fetch_single_customer(ig_user_id[p], ok)]
        /\ Logged(p, "getCustomer", ok, <<>>)
        /\ StoreCall(ok)
    /\ current_visits' = [current_visits EXCEPT ![p] = CurrentVisits(customer'[p])]
    /\ pc' = [pc EXCEPT ![p] = "card_image"]
    /\ UNCHANGED << secret, customers, customer_streaks, sig256, todo, request, status,
                    ig_user_id, cmd, prev_streak, new_streak, streak_days,
                    hit_2_now, hit_5_now, new_visits, pre >>

\* lines 418-424
CardImage(p) ==
    /\ pc[p] = "card_image"
    /\ \E ok \in BOOLEAN : SendImage(p, ok, current_visits[p], "done")

\* ------------------------------------------------------------ REPORT, HELP
\* lines 427-437
ReportSend(p) ==
    /\ pc[p] = "report_send"
    /\ \E ok \in BOOLEAN : SendText(p, ok, "report", "done")

\* lines 440-449; the loop body ends, which is the same as `continue`
HelpSend(p) ==
    /\ pc[p] = "help_send"
    /\ \E ok \in BOOLEAN : SendText(p, ok, "help", "done")

\* ------------------------------------------------------------ specification
Step(p) ==
    \/ Dispatch(p)
    \/ Finish(p)
    \/ SignupFetch(p)
    \/ SignupUpsert(p)
    \/ SignupSend(p)
    \/ StampFetch(p)
    \/ StreakSelect(p)
    \/ StreakUpsert(p)
    \/ StampSend2(p)
    \/ StampSend5(p)
    \/ StampUpsert(p)
    \/ StampImage(p)
    \/ CardFetch(p)
    \/ CardImage(p)
    \/ ReportSend(p)
    \/ HelpSend(p)
    \/ Continue(p)
    \/ Respond(p)

\* Requests handled one at a time: a request is taken only when no other is
\* being handled.
Next == \E p \in Procs : (AllIdle /\ Post(p)) \/ Step(p)

Spec == Init /\ [][Next]_vars

\* ==================================================================
\* Properties
\* ==================================================================

\* the calls of a sub-event's trace that are sends, in call order
IsSend(e) == e.call \in {"sendText", "sendImage"}
Sends(tr) == SelectSeq(tr, IsSend)

IsStoreCall(e) == e.call \in {"getCustomer", "upsertCustomer", "getStreak", "upsertStreak"}
StoreCalls(tr) == SelectSeq(tr, IsStoreCall)

IsUpsert(e) == e.call \in {"upsertCustomer", "upsertStreak"}

AllOk(tr) == \A i \in 1..Len(tr) : tr[i].ok

\* get_and_update_streak has returned to the STAMP flow of thread p
Returned(p) ==
    /\ cmd[p] = "STAMP"
    /\ pc[p] \in {"stamp_send2", "stamp_send5", "stamp_upsert", "stamp_image", "done"}

\* the counters a row stands for: an absent row, and a NULL streak_days, count as 0
VisitsOf(row) == IF row = <<>> THEN 0 ELSE row[1].number_of_visits
StreakOf(row) == IF row = <<>> \/ row[1].streak_days = NULL THEN 0 ELSE row[1].streak_days

\* ------------------------------------------------------------------ C1
\* C1: for a customer without prior StreakRecord, with STAMPs handled one after
\* another and every store call succeeding, the k-th call of
\* get_and_update_streak returns (k, k = 2, k = 5).
C1_KthCall ==
    \A p \in Procs :
        (Returned(p) /\ ok_calls >= 1) =>
            /\ streak_days[p] = ok_calls
            /\ hit_2_now[p] = (ok_calls = 2)
            /\ hit_5_now[p] = (ok_calls = 5)

\* the fifth call has returned (5, FALSE, TRUE)
C1_Witness ==
    \E p \in Procs :
        Returned(p) /\ ok_calls = 5 /\ streak_days[p] = 5 /\ hit_5_now[p] /\ ~hit_2_now[p]

\* ------------------------------------------------------------------ C2
\* C2 as stated: every STAMP command leaves the stored streak_days exactly one
\* greater than the value stored when the command started (0 if there was no
\* StreakRecord), whatever the store calls did.
C2_EveryStampAdvances ==
    \A p \in Procs :
        (cmd[p] = "STAMP" /\ pc[p] = "done") =>
            /\ customer_streaks[ig_user_id[p]] # <<>>
            /\ StreakOf(customer_streaks[ig_user_id[p]]) = StreakOf(pre[p][2]) + 1

\* C2 amended: a STAMP command whose StreakRecord select and upsert both
\* succeed leaves the stored streak_days exactly one greater than the value
\* stored when the command started (0 if there was none), hence >= 1.
C2_StampAdvancesWhenStoreOk ==
    \A p \in Procs :
        (/\ cmd[p] = "STAMP"
         /\ pc[p] = "done"
         /\ \E i \in 1..Len(trace[p]) : trace[p][i].call = "getStreak" /\ trace[p][i].ok
         /\ \E i \in 1..Len(trace[p]) : trace[p][i].call = "upsertStreak" /\ trace[p][i].ok) =>
            /\ customer_streaks[ig_user_id[p]] # <<>>
            /\ customer_streaks[ig_user_id[p]][1].streak_days = StreakOf(pre[p][2]) + 1
            /\ customer_streaks[ig_user_id[p]][1].streak_days >= 1

\* a STAMP took a stored streak of 3 to 4
C2_Witness ==
    \E p \in Procs :
        /\ cmd[p] = "STAMP" /\ pc[p] = "done"
        /\ trace[p][2].ok /\ trace[p][3].ok
        /\ pre[p][2] = <<[streak_days |-> 3]>>
        /\ customer_streaks[ig_user_id[p]] = <<[streak_days |-> 4]>>

\* ------------------------------------------------------------------ C3
\* the stamps a STAMP is to add, from the rows stored when it started
Crosses5(row) == StreakOf(row) < 5 /\ StreakOf(row) + 1 >= 5
ExpectedVisits(p) == VisitsOf(pre[p][1]) + (IF Crosses5(pre[p][2]) THEN 2 ELSE 1)

LastCall(p) == trace[p][Len(trace[p])]

\* C3 as stated: a STAMP for a customer with stored visits v stores v + 2 when it
\* makes the streak cross 5 and v + 1 otherwise, and the image reply is the card
\* of that value with a caption reporting it, whatever the store calls did.
C3_StampStoresVisits ==
    \A p \in Procs :
        (cmd[p] = "STAMP" /\ pc[p] = "done") =>
            /\ customers[ig_user_id[p]] = <<[number_of_visits |-> ExpectedVisits(p)]>>
            /\ LastCall(p).call = "sendImage"
            /\ LastCall(p).arg = <<build_stamp_card_url(ExpectedVisits(p)), ExpectedVisits(p)>>

\* C3 amended: the same, for a STAMP whose four store calls (Customer select,
\* StreakRecord select and upsert, Customer upsert) all succeed.
C3_StampStoresVisitsWhenStoreOk ==
    \A p \in Procs :
        (cmd[p] = "STAMP" /\ pc[p] = "done" /\ AllOk(StoreCalls(trace[p]))) =>
            /\ customers[ig_user_id[p]] = <<[number_of_visits |-> ExpectedVisits(p)]>>
            /\ LastCall(p).call = "sendImage"
            /\ LastCall(p).arg = <<build_stamp_card_url(ExpectedVisits(p)), ExpectedVisits(p)>>

\* visits 6 and streak 4: the STAMP stores 8 and the image shows 8
C3_Witness ==
    \E p \in Procs :
        /\ cmd[p] = "STAMP" /\ pc[p] = "done" /\ AllOk(StoreCalls(trace[p]))
        /\ pre[p] = << <<[number_of_visits |-> 6]>>, <<[streak_days |-> 4]>> >>
        /\ customers[ig_user_id[p]] = <<[number_of_visits |-> 8]>>
        /\ LastCall(p).arg = <<build_stamp_card_url(8), 8>>

\* ------------------------------------------------------------------ C4
\* what a STAMP whose streak call returned (_, h2, h5) sends, in order
StampSends(h2, h5) ==
    (IF h2 THEN <<"streak2">> ELSE <<>>) \o (IF h5 THEN <<"streak5">> ELSE <<>>)
        \o <<"image">>

SendKind(e) == IF e.call = "sendImage" THEN "image" ELSE e.arg[1]
SendKinds(tr) == [i \in 1..Len(Sends(tr)) |-> SendKind(Sends(tr)[i])]

IsPrefix(s, t) == Len(s) <= Len(t) /\ s = SubSeq(t, 1, Len(s))

\* C4: within one STAMP command the sends are the streak-2 text (only if
\* crossedTwo), then the streak-5 text (only if crossedFive), then exactly one
\* image reply, always sent and last; no text follows the image.
C4_StampSendOrder ==
    \A p \in Procs :
        cmd[p] = "STAMP" =>
            /\ IsPrefix(SendKinds(trace[p]), StampSends(hit_2_now[p], hit_5_now[p]))
            /\ pc[p] = "done" =>
                  SendKinds(trace[p]) = StampSends(hit_2_now[p], hit_5_now[p])

\* a STAMP that crossed 5 has sent the streak-5 text and then the image
C4_Witness ==
    \E p \in Procs :
        /\ cmd[p] = "STAMP" /\ pc[p] = "done" /\ hit_5_now[p]
        /\ SendKinds(trace[p]) = <<"streak5", "image">>

\* ------------------------------------------------------------------ C5
\* C5: SIGNUP upserts a Customer with number_of_visits = 0 only if the Customer
\* is absent, then sends the welcome text; a SIGNUP for an existing Customer
\* leaves its number_of_visits unchanged.
C5_SignupKeepsExisting ==
    \A p \in Procs :
        cmd[p] = "SIGNUP" =>
            /\ pre[p][1] # <<>> => customers[ig_user_id[p]] = pre[p][1]
            /\ pre[p][1] = <<>> =>
                  customers[ig_user_id[p]] \in {<<>>, <<[number_of_visits |-> 0]>>}
            /\ pc[p] = "done" => LastCall(p).arg = <<"welcome">>

\* ------------------------------------------------------------------ C6
\* the visits a CARD reports: the stored value, 0 without row or when the
\* select raised
CardVisits(p) == IF trace[p][1].ok THEN VisitsOf(pre[p][1]) ELSE 0

\* C6: CARD is read-only: no store write, no Customer or StreakRecord created,
\* both tables as they were, and exactly one image reply, the card of the
\* visits read.
C6_CardReadOnly ==
    \A p \in Procs :
        cmd[p] = "CARD" =>
            /\ customers[ig_user_id[p]] = pre[p][1]
            /\ customer_streaks[ig_user_id[p]] = pre[p][2]
            /\ \A i \in 1..Len(trace[p]) : ~IsUpsert(trace[p][i])
            /\ pc[p] = "done" =>
                  /\ Len(trace[p]) = 2
                  /\ trace[p][1].call = "getCustomer"
                  /\ trace[p][2].call = "sendImage"
                  /\ trace[p][2].arg = <<build_stamp_card_url(CardVisits(p)), CardVisits(p)>>

\* a CARD for a customer without rows has sent the card of 0 and created nothing
C6_Witness ==
    \E p \in Procs :
        /\ cmd[p] = "CARD" /\ pc[p] = "done"
        /\ pre[p] = << <<>>, <<>> >>
        /\ customers[ig_user_id[p]] = <<>>
        /\ trace[p][1].ok
        /\ trace[p][2].arg = <<build_stamp_card_url(0), 0>>

Recognized == {"SIGNUP", "STAMP", "CARD", "REPORT"}

Delivered(p) == \E i \in 1..Len(trace[p]) : IsSend(trace[p][i]) /\ trace[p][i].ok
NotifierDown(p) == \E i \in 1..Len(trace[p]) : IsSend(trace[p][i]) /\ ~trace[p][i].ok

\* the handler runs to completion: each thread keeps taking its next step
FairSpec == Spec /\ \A p \in Procs : WF_vars(Step(p))

\* C8: every recognized command from a sender with an id is eventually
\* answered by at least one delivered reply, unless a send of that command
\* failed at the Notifier; failing store calls do not prevent it.
C8_EventuallyReplied ==
    \A p \in Procs :
        (cmd[p] \in Recognized) ~> (pc[p] = "done" /\ (Delivered(p) \/ NotifierDown(p)))

\* a STAMP all of whose store calls raised has delivered its image
C8_Witness ==
    \E p \in Procs :
        /\ cmd[p] = "STAMP" /\ pc[p] = "done"
        /\ \A i \in 1..Len(trace[p]) : IsStoreCall(trace[p][i]) => ~trace[p][i].ok
        /\ Delivered(p) /\ ~NotifierDown(p)

\* ------------------------------------------------------------------ C9
IsBlank(tok) == tok \in Whitespace
NonBlank(tok) == ~IsBlank(tok)

\* the three ways a header fails: missing, without the sha256= prefix, or with
\* a digest other than the digest of the body
Missing(h) == h = <<>>
LacksPrefix(h) == h # <<>> /\ h[1] # "sha256="
WrongDigest(h) == h # <<>> /\ h[1] = "sha256=" /\ SelectSeq(Tail(h), NonBlank) # <<"mac_ok">>
BadSignature(h) == Missing(h) \/ LacksPrefix(h) \/ WrongDigest(h)

\* C9: a POST is rejected with 403 exactly when a secret is configured and the
\* signature is missing, lacks the prefix or has a wrong digest; a rejected POST
\* makes no store call and no send.
C9_SignatureGate ==
    \A p \in Procs :
        pc[p] # "idle" =>
            /\ ~looped[p] => ((status[p] = 403) <=> (secret /\ BadSignature(sig256[p])))
            /\ status[p] = 403 =>
                  (pc[p] = "responded" /\ ~looped[p] /\ ~touched[p] /\ trace[p] = <<>>)

\* a POST with a wrong digest has been rejected
C9_Witness ==
    \E p \in Procs :
        /\ secret /\ status[p] = 403 /\ pc[p] = "responded"
        /\ sig256[p] = <<"sha256=", "mac_bad">>
        /\ ~touched[p]

\* ------------------------------------------------------------------ C10
LetterPairs ==
    { <<"a", "A">>, <<"c", "C">>, <<"d", "D">>, <<"e", "E">>, <<"g", "G">>,
      <<"i", "I">>, <<"m", "M">>, <<"n", "N">>, <<"o", "O">>, <<"p", "P">>,
      <<"r", "R">>, <<"s", "S">>, <<"t", "T">>, <<"u", "U">> }

SameLetter(a, b) == a = b \/ <<a, b>> \in LetterPairs \/ <<b, a>> \in LetterPairs

\* t is the word w, in any case, between two runs of whitespace
Matches(t, w) ==
    \E i \in 0..Len(t) :
        /\ i + Len(w) <= Len(t)
        /\ \A k \in 1..i : t[k] \in Whitespace
        /\ \A k \in 1..Len(w) : SameLetter(t[i + k], w[k])
        /\ \A k \in (i + Len(w) + 1)..Len(t) : t[k] \in Whitespace

\* the sub-event of thread p has been dispatched and its flow has made no call yet
JustDispatched(p) == cmd[p] # "" /\ trace[p] = <<>>

\* C10: the trimmed text selects SIGNUP, STAMP, CARD or REPORT by exact
\* case-insensitive match and HELP otherwise (the empty text too); REPORT and
\* HELP send exactly one text and make no store call.
C10_CommandSelection ==
    \A p \in Procs :
        /\ JustDispatched(p) =>
              /\ (cmd[p] = "SIGNUP") <=> Matches(text[p], T_SIGNUP)
              /\ (cmd[p] = "STAMP") <=> Matches(text[p], T_STAMP)
              /\ (cmd[p] = "CARD") <=> Matches(text[p], T_CARD)
              /\ (cmd[p] = "REPORT") <=> Matches(text[p], T_REPORT)
              /\ cmd[p] \in Recognized \cup {"HELP"}
              /\ text[p] = <<>> => cmd[p] = "HELP"
              /\ pc[p] = FlowStart(cmd[p])
        /\ (cmd[p] \in {"REPORT", "HELP"} /\ pc[p] = "done") =>
              /\ Len(trace[p]) = 1
              /\ trace[p][1].call = "sendText"
              /\ trace[p][1].arg = <<IF cmd[p] = "REPORT" THEN "report" ELSE "help">>

\* " Stamp\n" has selected STAMP
C10_Witness ==
    \E p \in Procs :
        /\ JustDispatched(p)
        /\ text[p] = <<" ", "S", "t", "a", "m", "p", "\n">>
        /\ cmd[p] = "STAMP"

\* ------------------------------------------------------------------ C11
\* the places of the messaging events of body d
Positions(d) ==
    IF ~d.has_entry THEN {}
    ELSE {x \in (1..Len(d.entry)) \X (1..MaxEvents) :
             d.entry[x[1]].has_messaging /\ x[2] <= Len(d.entry[x[1]].messaging)}

\* entries in order, and the items of one entry in order
Before(a, b) == a[1] < b[1] \/ (a[1] = b[1] /\ a[2] < b[2])

InReceivedOrder(seq, d) ==
    /\ \A k \in 1..Len(seq) : seq[k] \in Positions(d)
    /\ \A k, l \in 1..Len(seq) : k < l => Before(seq[k], seq[l])
    /\ \A x \in Positions(d) : \E k \in 1..Len(seq) : seq[k] = x

InFlow(p) == pc[p] \notin {"idle", "loop", "responded"}

C11_State ==
    \A p \in Procs :
        /\ (pc[p] = "loop" /\ ~looped[p]) => InReceivedOrder(events[p], data[p])
        /\ \A k, l \in 1..Len(events[p]) : k < l => Before(events[p][k], events[p][l])
        /\ (pc[p] = "responded" /\ status[p] = 200) => events[p] = <<>>
        /\ trace[p] # <<>> => InFlow(p)

C11_Step ==
    \A p \in Procs :
        /\ trace'[p] # trace[p] => events'[p] = events[p]
        /\ (events'[p] # events[p] /\ pc[p] \notin {"idle", "responded"}) =>
              /\ pc[p] = "loop" /\ trace[p] = <<>>
              /\ events'[p] = Tail(events[p])
              /\ InFlow(p)' =>
                    pre'[p] = <<customers[ig_user_id'[p]], customer_streaks[ig_user_id'[p]]>>

\* C11: the sub-events of one request are handled one after the other in the
\* order received (entries in order, the messaging items of an entry in order):
\* the loop takes the earliest event left, only when the calls of the one
\* before are all made, and the event starts from the rows the one before has
\* left, so that two STAMPs of one customer in one request advance streak and
\* visits twice.
C11_SequentialInOrder == []C11_State /\ [][C11_Step]_vars

\* two entries of one item each: the STAMP of the first has made all its
\* calls, streak and visits stand at 1, the event of the second is still to come
C11_Witness ==
    \E p \in Procs :
        /\ events[p] = << <<2, 1>> >>
        /\ cmd[p] = "STAMP" /\ pc[p] = "done" /\ AllOk(trace[p])
        /\ pre[p] = << <<>>, <<>> >>
        /\ customers[ig_user_id[p]] = <<[number_of_visits |-> 1]>>
        /\ customer_streaks[ig_user_id[p]] = <<[streak_days |-> 1]>>

\* ------------------------------------------------------------------ C12
\* no entry list, an empty one, or only entries without messaging items
NoEvents(d) ==
    \/ ~d.has_entry
    \/ \A i \in 1..Len(d.entry) :
          ~d.entry[i].has_messaging \/ d.entry[i].messaging = <<>>

PassedGate(p) == ~(secret /\ BadSignature(sig256[p]))

\* C12: a POST that passed the signature gate and whose body has no entry list,
\* an empty entry list, or only entries with missing or empty messaging lists
\* is answered 200 at once, with no store call and no send.
C12_EmptyBodyNoop ==
    \A p \in Procs :
        /\ (pc[p] = "loop" /\ ~looped[p]) => ~NoEvents(data[p])
        /\ (pc[p] = "responded" /\ PassedGate(p) /\ ~looped[p]) =>
              /\ NoEvents(data[p])
              /\ status[p] = 200
              /\ ~touched[p] /\ trace[p] = <<>>

\* an entry without messaging key, next to one with an empty list
C12_Witness ==
    \E p \in Procs :
        /\ pc[p] = "responded" /\ status[p] = 200 /\ ~touched[p]
        /\ data[p].has_entry /\ Len(data[p].entry) = 2
        /\ ~data[p].entry[1].has_messaging
        /\ data[p].entry[2].has_messaging

\* ------------------------------------------------------------------ C15
\* the triple get_and_update_streak computes from a previous streak s
TripleFrom(s) == <<s + 1, s = 1, s = 4>>

\* C15: get_and_update_streak swallows store failures: a failed select makes it
\* go on with previous streak 0 and return (1, FALSE, FALSE); a failed upsert
\* leaves the stored StreakRecord as it was and the triple computed from the
\* streak read is still returned; the caller always gets its triple.
C15_StreakSwallowsFailures ==
    \A p \in Procs :
        /\ (cmd[p] = "STAMP" /\ Len(trace[p]) >= 3) => Returned(p)
        /\ Returned(p) =>
              /\ trace[p][2].call = "getStreak" /\ trace[p][3].call = "upsertStreak"
              /\ <<streak_days[p], hit_2_now[p], hit_5_now[p]>> =
                    IF trace[p][2].ok THEN TripleFrom(StreakOf(pre[p][2]))
                    ELSE <<1, FALSE, FALSE>>
              /\ ~trace[p][3].ok => customer_streaks[ig_user_id[p]] = pre[p][2]

\* with streak 4 stored the upsert failed: (5, FALSE, TRUE) came back and 4 stays
C15_Witness ==
    \E p \in Procs :
        /\ Returned(p) /\ trace[p][2].ok /\ ~trace[p][3].ok
        /\ pre[p][2] = <<[streak_days |-> 4]>>
        /\ <<streak_days[p], hit_2_now[p], hit_5_now[p]>> = <<5, FALSE, TRUE>>
        /\ customer_streaks[ig_user_id[p]] = <<[streak_days |-> 4]>>

\* ------------------------------------------------------------------ C16
\* the values a stored streak_days is checked for
StoredStreaks == {NULL} \cup 0..(MaxStreak + 4)

IsText(e) == e.call = "sendText"

\* C16: crossedTwo and crossedFive are never both true in one call of
\* get_and_update_streak, for any stored previous streak; a STAMP sends at most
\* one streak text and at most two messages.
C16_NeverBothCrossings ==
    /\ \A s \in StoredStreaks :
          ~(HitNow(2, NewStreak(s), s) /\ HitNow(5, NewStreak(s), s))
    /\ \A p \in Procs :
          /\ ~(hit_2_now[p] /\ hit_5_now[p])
          /\ cmd[p] = "STAMP" =>
                /\ Len(SelectSeq(trace[p], IsText)) <= 1
                /\ Len(Sends(trace[p])) <= 2

\* a STAMP that crossed 2 has sent its two messages
C16_Witness ==
    \E p \in Procs :
        /\ cmd[p] = "STAMP" /\ pc[p] = "done" /\ hit_2_now[p]
        /\ Len(Sends(trace[p])) = 2

\* ------------------------------------------------------------------ C17
\* C17: over any sequence of commands handled one at a time, failing store
\* calls included, the stored number_of_visits of an existing Customer never
\* decreases.
C17_VisitsNeverDecrease ==
    [][\A c \in Customers :
          customers[c] # <<>> =>
              /\ customers'[c] # <<>>
              /\ customers'[c][1].number_of_visits >= customers[c][1].number_of_visits]_vars

\* ------------------------------------------------------------------ C18
\* the customer starts with no Customer and no StreakRecord
FreshInit ==
    /\ Init
    /\ \A c \in Customers : customers[c] = <<>> /\ customer_streaks[c] = <<>>

FreshSpec == FreshInit /\ [][Next]_vars

NoStampInFlight == \A p \in Procs : cmd[p] = "STAMP" => pc[p] = "done"

\* C18: from no Customer and no StreakRecord, after n STAMPs handled one at a
\* time with every store call succeeding (other commands interleaved), the
\* stored streak_days is n and number_of_visits is n for n < 5, n + 1 for n >= 5.
C18_AfterNStamps ==
    \A c \in Customers :
        (ok_calls >= 0 /\ NoStampInFlight) =>
            /\ StreakOf(customer_streaks[c]) = ok_calls
            /\ ok_calls >= 1 => customer_streaks[c] # <<>>
            /\ VisitsOf(customers[c]) = IF ok_calls < 5 THEN ok_calls ELSE ok_calls + 1
            /\ ok_calls >= 1 => customers[c] # <<>>

\* six STAMPs have left streak 6 and 7 visits
C18_Witness ==
    /\ ok_calls = 6 /\ NoStampInFlight
    /\ \A c \in Customers :
          /\ customer_streaks[c] = <<[streak_days |-> 6]>>
          /\ customers[c] = <<[number_of_visits |-> 7]>>

\* ------------------------------------------------------------------ C20
\* the Customer upsert of the STAMP of thread p succeeded
CustomerUpsertOk(p) ==
    \E i \in 1..Len(trace[p]) : trace[p][i].call = "upsertCustomer" /\ trace[p][i].ok

CaptionIsStored(p) ==
    /\ customers[ig_user_id[p]] # <<>>
    /\ LastCall(p).call = "sendImage"
    /\ LastCall(p).arg[2] = customers[ig_user_id[p]][1].number_of_visits
    /\ LastCall(p).arg[1] =
          build_stamp_card_url(customers[ig_user_id[p]][1].number_of_visits)

\* C20 as stated: when a STAMP finishes, the count in its caption and card URL
\* is the number_of_visits stored at that moment, also when the Customer upsert
\* failed.
C20_CaptionIsStoredAlways ==
    \A p \in Procs : (cmd[p] = "STAMP" /\ pc[p] = "done") => CaptionIsStored(p)

\* C20 amended: the same, for a STAMP whose Customer upsert succeeded.
C20_CaptionIsStoredWhenUpsertOk ==
    \A p \in Procs :
        (cmd[p] = "STAMP" /\ pc[p] = "done" /\ CustomerUpsertOk(p)) => CaptionIsStored(p)

\* the Customer select failed with 3 visits stored, the upsert succeeded: the
\* caption and the row both say 1
C20_Witness ==
    \E p \in Procs :
        /\ cmd[p] = "STAMP" /\ pc[p] = "done" /\ CustomerUpsertOk(p)
        /\ ~trace[p][1].ok
        /\ pre[p][1] = <<[number_of_visits |-> 3]>>
        /\ customers[ig_user_id[p]] = <<[number_of_visits |-> 1]>>
        /\ LastCall(p).arg = <<build_stamp_card_url(1), 1>>

\* ------------------------------------------------------------------ C19
CountSpec == CountInit /\ [][Next]_vars

\* C19 as stated: over any sequence of STAMPs handled one at a time, failing
\* StreakRecord reads and upserts included, a customer is sent the streak-2
\* text at most once and the streak-5 text with its double stamp at most once.
C19_StreakTextsOnce ==
    \A c \in Customers : streak_texts[c].streak2 <= 1 /\ streak_texts[c].streak5 <= 1

\* C19 amended: the same, as long as no StreakRecord read or upsert has failed.
C19_StreakTextsOnceWhenStoreOk ==
    \A c \in Customers :
        streak_calls_ok => (streak_texts[c].streak2 <= 1 /\ streak_texts[c].streak5 <= 1)

\* both texts have been sent once, at streak 2 and at streak 5, and the streak
\* has gone on to 6
C19_Witness ==
    /\ streak_calls_ok
    /\ \A c \in Customers :
          /\ streak_texts[c] = [streak2 |-> 1, streak5 |-> 1]
          /\ customer_streaks[c] = <<[streak_days |-> 6]>>

\* ------------------------------------------------------------------ C14
\* build_stamp_card_url applied to the integers a customers row may hold: each
\* thread has read its count in the CARD flow and is about to send the card
UrlArgs == (0 - MaxExcess)..(10 + MaxExcess)

UrlInit ==
    /\ secret = FALSE
    /\ current_visits \in [Procs -> UrlArgs]
    /\ customer = [p \in Procs |-> <<[number_of_visits |-> current_visits[p]]>>]
    /\ customers = [c \in Customers |-> customer[CHOOSE p \in Procs : TRUE]]
    /\ customer_streaks = [c \in Customers |-> <<>>]
    /\ pc = [p \in Procs |-> "card_image"]
    /\ cmd = [p \in Procs |-> "CARD"]
    /\ ig_user_id = [p \in Procs |-> CHOOSE c \in Customers : TRUE]
    /\ trace = [p \in Procs |-> <<Call("getCustomer", TRUE, <<>>)>>]
    /\ pre = [p \in Procs |-> <<customer[p], <<>>>>]
    /\ touched = [p \in Procs |-> TRUE]
    /\ events = [p \in Procs |-> <<>>]
    /\ looped = [p \in Procs |-> TRUE]
    /\ todo = [p \in Procs |-> 1]
    /\ data = [p \in Procs |-> NoBody]
    /\ sig256 = [p \in Procs |-> <<>>]
    /\ status = [p \in Procs |-> 0]
    /\ text = [p \in Procs |-> <<>>]
    /\ prev_streak = [p \in Procs |-> 0]
    /\ new_streak = [p \in Procs |-> 0]
    /\ streak_days = [p \in Procs |-> 0]
    /\ hit_2_now = [p \in Procs |-> FALSE]
    /\ hit_5_now = [p \in Procs |-> FALSE]
    /\ new_visits = [p \in Procs |-> 0]
    /\ failed = [p \in Procs |-> FALSE]
    /\ counting = FALSE
    /\ streak_texts = [c \in Customers |-> [streak2 |-> 0, streak5 |-> 0]]
    /\ streak_calls_ok = TRUE
    /\ ok_calls = 0

UrlNext == \E p \in Procs : CardImage(p)

UrlSpec == UrlInit /\ [][UrlNext]_vars

Dist(a, b) == IF a < b THEN b - a ELSE a - b

\* min(max(v, 0), 10): the point of 0..10 nearest to v
Nearest(v) == CHOOSE c \in 0..10 : \A d \in 0..10 : Dist(c, v) <= Dist(d, v)

CardSent(p) == cmd[p] = "CARD" /\ pc[p] = "done" /\ LastCall(p).call = "sendImage"

\* the URL sent by thread p
UrlOf(p) == LastCall(p).arg[1]

\* C14: cardUrl(v) = cardUrl(min(max(v, 0), 10)) for every integer v, so
\* cardUrl(-5) = cardUrl(0) and cardUrl(15) = cardUrl(10); two clamped values
\* give the same URL only if they are equal.
C14_UrlClamps ==
    /\ build_stamp_card_url(0 - 5) = build_stamp_card_url(0)
    /\ build_stamp_card_url(15) = build_stamp_card_url(10)
    /\ \A p \in Procs :
          CardSent(p) =>
              /\ UrlOf(p) = build_stamp_card_url(Nearest(current_visits[p]))
              /\ \A q \in Procs :
                    CardSent(q) =>
                        (UrlOf(p) = UrlOf(q)
                            <=> Nearest(current_visits[p]) = Nearest(current_visits[q]))

\* the cards for 15 and for 10 visits have been sent, with the same URL
C14_Witness ==
    \E p, q \in Procs :
        /\ CardSent(p) /\ CardSent(q)
        /\ current_visits[p] = 15 /\ current_visits[q] = 10
        /\ UrlOf(p) = UrlOf(q)

\* ------------------------------------------------------------------ C13
\* two requests handled by two threads at once: each carries one STAMP of the
\* same customer, and both have been dispatched before either makes a call
ConcInit ==
    /\ secret = FALSE
    /\ customers \in [Customers -> CustomerRows]
    /\ customer_streaks \in [Customers -> StreakRows]
    /\ pc = [p \in Procs |-> "stamp_fetch"]
    /\ cmd = [p \in Procs |-> "STAMP"]
    /\ text = [p \in Procs |-> T_STAMP]
    /\ ig_user_id = [p \in Procs |-> CHOOSE c \in Customers : TRUE]
    /\ pre = [p \in Procs |-> <<customers[ig_user_id[p]], customer_streaks[ig_user_id[p]]>>]
    /\ trace = [p \in Procs |-> <<>>]
    /\ touched = [p \in Procs |-> FALSE]
    /\ failed = [p \in Procs |-> FALSE]
    /\ events = [p \in Procs |-> <<>>]
    /\ looped = [p \in Procs |-> TRUE]
    /\ todo = [p \in Procs |-> 1]
    /\ data = [p \in Procs |-> NoBody]
    /\ sig256 = [p \in Procs |-> <<>>]
    /\ status = [p \in Procs |-> 0]
    /\ customer = [p \in Procs |-> <<>>]
    /\ current_visits = [p \in Procs |-> 0]
    /\ prev_streak = [p \in Procs |-> 0]
    /\ new_streak = [p \in Procs |-> 0]
    /\ streak_days = [p \in Procs |-> 0]
    /\ hit_2_now = [p \in Procs |-> FALSE]
    /\ hit_5_now = [p \in Procs |-> FALSE]
    /\ new_visits = [p \in Procs |-> 0]
    /\ counting = FALSE
    /\ streak_texts = [c \in Customers |-> [streak2 |-> 0, streak5 |-> 0]]
    /\ streak_calls_ok = TRUE
    /\ ok_calls = -1

\* the threads' STAMP flows, interleaved call by call
ConcNext ==
    \E p \in Procs :
        \/ StampFetch(p)
        \/ StreakSelect(p)
        \/ StreakUpsert(p)
        \/ StampSend2(p)
        \/ StampSend5(p)
        \/ StampUpsert(p)
        \/ StampImage(p)

ConcSpec == ConcInit /\ [][ConcNext]_vars

\* the STAMP of thread p has completed, every store call having succeeded
StampCompleted(p) ==
    /\ cmd[p] = "STAMP" /\ pc[p] = "done"
    /\ AllOk(StoreCalls(trace[p]))
    /\ LastCall(p).call = "sendImage"

\* C13: two STAMPs of one customer handled by concurrent requests race on the
\* unsynchronised read-modify-write: when both have completed, the stored
\* number_of_visits and streak_days are those one of the two commands computed
\* from its own read, and each image reports its own command's count; so the
\* rows may have advanced by one command's worth only (a lost update).
C13_LastWriterWins ==
    (\A p \in Procs : StampCompleted(p)) =>
        \A c \in Customers :
            /\ \E p \in Procs : customers[c] = <<[number_of_visits |-> new_visits[p]]>>
            /\ \E p \in Procs : customer_streaks[c] = <<[streak_days |-> new_streak[p]]>>
            /\ \A p \in Procs :
                  /\ LastCall(p).arg = <<build_stamp_card_url(new_visits[p]), new_visits[p]>>
                  /\ new_streak[p] >= StreakOf(pre[p][2]) + 1
                  /\ new_visits[p] >= VisitsOf(pre[p][1]) + 1

\* the lost update: both STAMPs completed and both images were delivered, yet
\* the streak went from 1 to 2 and the visits from 1 to 2
C13_Witness ==
    /\ \A p \in Procs :
          /\ StampCompleted(p) /\ LastCall(p).ok
          /\ pre[p] = << <<[number_of_visits |-> 1]>>, <<[streak_days |-> 1]>> >>
    /\ \A c \in Customers :
          /\ customers[c] = <<[number_of_visits |-> 2]>>
          /\ customer_streaks[c] = <<[streak_days |-> 2]>>

====
